---------------------------- MODULE Spec2Model ----------------------------
(***************************************************************************)
(* A model of qualcoder/view_graph.py: the ViewGraph dialog that lays out  *)
(* the categories and codes of a project as a radial graph.                *)
(*                                                                         *)
(* Numbers.  Python computes positions in floating point.  Here a          *)
(* coordinate is an integer number of thousandths of a canvas unit, and    *)
(* an angle is the pair <<n, k>> standing for (2*pi / k) * n, which is the *)
(* only shape of angle do_graph ever builds.  math.cos and math.sin are    *)
(* tables of the values at those angles, in thousandths.                   *)
(***************************************************************************)
EXTENDS Integers, Sequences, FiniteSets, TLC

\* ------------------------------------------------------------------ bounds
\* The most rows (categories plus codes) the stored lists hold.
MaxNodes == 4
\* The longest single chain of categories the subtree function is tried on.
ChainLen == 12

\* ------------------------------------------------------- program constants
\* Python's None, as stored in supercatid, catid, cid, x and y.
None == -1000000000
\* A parent id that names no row of code_cat.
DanglingId == MaxNodes + ChainLen + 1
\* One canvas unit, in the thousandths that coordinates are counted in.
Unit == 1000
\* GraphicsScene.sceneWidth and sceneHeight as the class sets them.
DefaultWidth == 982
DefaultHeight == 647
\* The other canvas sizes setWidth and setHeight are called with.
OtherWidth == 900
OtherHeight == 600
\* A canvas small enough for the circle of roots to pass its edges.
SmallWidth == 300
SmallHeight == 200
\* r = 180
R == 180
\* while x_is_none and i < 1000
MaxPasses == 1000
\* while ... and i < 10
MaxRounds == 10
\* the overlap test and the nudge: 20 units
Nudge == 20
\* the lower clamp: 2 units
LowClamp == 2

VARIABLES
    categories,   \* ViewGraph.categories: rows of code_cat, ordered by name
    code_names,   \* ViewGraph.code_names: rows of code_name
    sceneWidth,   \* GraphicsScene.sceneWidth
    sceneHeight,  \* GraphicsScene.sceneHeight
    items,        \* the TextGraphicsItems of the scene: the data of each
    links,        \* the LinkGraphicsItems of the scene: <<from, to>> indices into items
    pc,           \* where do_graph stands: idle (not called yet), depth, angles,
                  \* position, done (returned); returned for a bare call of
                  \* get_node_with_children
    model,        \* do_graph's local list of node records
    mi,           \* depth loop: index of c in model
    supercatid,   \* depth loop: local supercatid
    depth,        \* depth loop: local depth
    i,            \* positioning loop: the pass counter
    x_is_none,    \* positioning loop: the flag
    raised,       \* the last do_graph ended in an uncaught exception
    top,          \* the node get_node_with_children was last called with
    pos,          \* pos() of each TextGraphicsItem, as <<x, y>>
    lines,        \* line() of each LinkGraphicsItem, as <<from_x, from_y, to_x, to_y>>
    db            \* the memo columns of the tables code_cat and code_name

vars == <<categories, code_names, sceneWidth, sceneHeight, items, links, pc,
          model, mi, supercatid, depth, i, x_is_none, raised, top, pos, lines, db>>

\* ------------------------------------------------------------ arithmetic
Abs(a) == IF a < 0 THEN 0 - a ELSE a

\* a / b rounded to the nearest integer, b > 0
RoundDiv(a, b) == (2 * a + b) \div (2 * b)

\* math.cos((2*pi / k) * n) * 1000, k in 1..8
CosTable ==
    << <<1000>>,
       <<1000, -1000>>,
       <<1000, -500, -500>>,
       <<1000, 0, -1000, 0>>,
       <<1000, 309, -809, -809, 309>>,
       <<1000, 500, -500, -1000, -500, 500>>,
       <<1000, 623, -223, -901, -901, -223, 623>>,
       <<1000, 707, 0, -707, -1000, -707, 0, 707>> >>

\* math.sin((2*pi / k) * n) * 1000, k in 1..8
SinTable ==
    << <<0>>,
       <<0, 0>>,
       <<0, 866, -866>>,
       <<0, 1000, 0, -1000>>,
       <<0, 951, 588, -588, -951>>,
       <<0, 866, 866, 0, -866, -866>>,
       <<0, 782, 975, 434, -434, -975, -782>>,
       <<0, 707, 1000, 707, 0, -707, -1000, -707>> >>

Cos(angle) == CosTable[angle[2]][(angle[1] % angle[2]) + 1]
Sin(angle) == SinTable[angle[2]][(angle[1] % angle[2]) + 1]

\* ------------------------------------------------------------- the rows
\* A row of code_cat as get_data keeps it.
CatRow(id, super) == [name |-> id, catid |-> id, memo |-> 0, supercatid |-> super]
\* A row of code_name as get_data keeps it; names continue after the categories'.
CodeRow(id, cat, nc) == [name |-> nc + id, cid |-> id, memo |-> 0, catid |-> cat]

ParentChoices(nc) == {None} \cup (1..nc) \cup {DanglingId}

\* Every pair of stored lists of at most n rows in all.
Hierarchies(n) ==
    UNION { UNION { { << [c \in 1..nc |-> CatRow(c, sup[c])],
                         [k \in 1..nk |-> CodeRow(k, cat[k], nc)] >> :
                       sup \in [1..nc -> ParentChoices(nc)],
                       cat \in [1..nk -> ParentChoices(nc)] } :
                    nk \in 0..(n - nc) } :
            nc \in 0..n }


\* A single chain of n categories, each the parent of the next, the children
\* listed first when rev is TRUE, with one code under the last category.
Chain(n, rev) ==
    << [c \in 1..n |-> IF rev
                         THEN CatRow(c, IF c = n THEN None ELSE c + 1)
                         ELSE CatRow(c, IF c = 1 THEN None ELSE c - 1)],
       << CodeRow(1, IF rev THEN 1 ELSE n, n) >> >>

\* ------------------------------------------------- do_graph: the node list
\* for c in cats: the keys do_graph adds to a copy of a category row
CatNode(row) ==
    [name |-> row.name, catid |-> row.catid, cid |-> None, memo |-> row.memo,
     supercatid |-> row.supercatid, depth |-> 0, angle |-> <<>>,
     x |-> None, y |-> None]

\* for c in codes: the keys do_graph adds to a copy of a code row
CodeNode(row) ==
    [name |-> row.name, catid |-> row.catid, cid |-> row.cid, memo |-> row.memo,
     supercatid |-> row.catid, depth |-> 0, angle |-> <<>>,
     x |-> None, y |-> None]

\* BuildModel that gives a row's node the name its text item of the scene
\* shows, when the scene holds one
BuildModelFromScene(cats, codes) ==
    LET fresh == [k \in 1..Len(cats) |-> CatNode(cats[k])] \o
                 [k \in 1..Len(codes) |-> CodeNode(codes[k])]
        Shown(m) == {j \in 1..Len(items) :
                        items[j].catid = m.catid /\ items[j].cid = m.cid}
    IN  [k \in 1..Len(fresh) |->
            IF Shown(fresh[k]) = {} THEN fresh[k]
            ELSE [fresh[k] EXCEPT !.name = items[CHOOSE j \in Shown(fresh[k]) : TRUE].name]]

\* model = cats + codes
BuildModel(cats, codes) ==
    [k \in 1..Len(cats) |-> CatNode(cats[k])] \o
    [k \in 1..Len(codes) |-> CodeNode(codes[k])]

\* top_node = None: a record that is no node, since a node is a record
NoNode ==
    [name |-> None, catid |-> None, cid |-> None, memo |-> None,
     supercatid |-> None, depth |-> None, angle |-> <<>>, x |-> None, y |-> None]

\* The combo box text "All"; every other text is a category's name.
All == 0

\* top_node: "All" is None, a category's name is the first category of that name
TopNode(text, cats) ==
    IF text = All \/ ~ \E k \in 1..Len(cats) : cats[k].name = text
      THEN NoNode
      ELSE CatNode(cats[CHOOSE k \in 1..Len(cats) :
                          /\ cats[k].name = text
                          /\ \A j \in 1..(k - 1) : cats[j].name # text])

\* --------------------------------------------------- get_node_with_children
\* IsChildOf that takes categories only, the codes left out
IsChildCategoryOf(m, n) == m.supercatid = n.catid /\ m.cid = None

\* if m['supercatid'] == n['catid']
IsChildOf(m, n) == m.supercatid = n.catid

\* for n in new_model: for m in model: ... append_list.append(m)
RECURSIVE AppendList(_, _, _)
AppendList(new_model, mdl, k) ==
    IF k > Len(new_model) THEN <<>>
    ELSE SelectSeq(mdl, LAMBDA m : IsChildOf(m, new_model[k]))
           \o AppendList(new_model, mdl, k + 1)

\* model.remove(n): drops the first element equal to n.  (list.remove raises
\* ValueError when there is none; no node is appended twice in one round, so
\* there always is one.)
RemoveFirst(mdl, n) ==
    IF \E k \in 1..Len(mdl) : mdl[k] = n
      THEN LET k == CHOOSE j \in 1..Len(mdl) :
                      mdl[j] = n /\ \A h \in 1..(j - 1) : mdl[h] # n
           IN  SubSeq(mdl, 1, k - 1) \o SubSeq(mdl, k + 1, Len(mdl))
      ELSE mdl

RECURSIVE RemoveAll(_, _)
RemoveAll(mdl, append_list) ==
    IF append_list = <<>> THEN mdl
    ELSE RemoveAll(RemoveFirst(mdl, Head(append_list)), Tail(append_list))

\* while model != [] and new_model_changed and i < 10
RECURSIVE Rounds(_, _, _, _)
Rounds(new_model, mdl, round, changed) ==
    IF mdl # <<>> /\ changed /\ round < MaxRounds
      THEN LET append_list == AppendList(new_model, mdl, 1)
           IN  Rounds(new_model \o append_list, RemoveAll(mdl, append_list),
                      round + 1, append_list # <<>>)
      ELSE new_model

GetNodeWithChildren(node, mdl) ==
    IF node = NoNode THEN mdl ELSE Rounds(<<node>>, mdl, 0, TRUE)

\* ------------------------------------------------------- do_graph: depths
\* Sweep that stops at the first category it matches and takes it for a root
SweepToRoot(cats, k, sup, d) ==
    IF \E j \in k..Len(cats) : cats[j].catid = sup THEN <<None, d + 1>> ELSE <<sup, d>>

\* One run of "for s in cats" inside the while loop, from category k on:
\* the supercatid and depth it ends with.
RECURSIVE Sweep(_, _, _, _)
Sweep(cats, k, sup, d) ==
    IF k > Len(cats) THEN <<sup, d>>
    ELSE IF sup = cats[k].catid
           THEN Sweep(cats, k + 1, cats[k].supercatid, d + 1)
           ELSE Sweep(cats, k + 1, sup, d)

\* for c in model: the next c, from index k on, whose while loop runs at all
\* (a c with supercatid None keeps the depth 0 it was given)
RECURSIVE NextWithParent(_, _)
NextWithParent(mdl, k) ==
    IF k > Len(mdl) THEN k
    ELSE IF mdl[k].supercatid # None THEN k
    ELSE NextWithParent(mdl, k + 1)

\* ------------------------------------------------------- do_graph: angles
\* supercatid_list, and Counter(supercatid_list)[key]
SupercatidList(mdl) == [k \in 1..Len(mdl) |-> mdl[k].supercatid]
Count(list, key) == Cardinality({k \in 1..Len(list) : list[k] = key})

\* catid_counts.keys(): the distinct supercatids, first seen first
RECURSIVE Keys(_, _)
Keys(list, k) ==
    IF k > Len(list) THEN <<>>
    ELSE IF \E j \in 1..(k - 1) : list[j] = list[k]
           THEN Keys(list, k + 1)
           ELSE <<list[k]>> \o Keys(list, k + 1)

\* segment = 1, the value the counter starts from for each key
FirstSegment == 1

\* AngleOf as if segment were never stepped: every member the first angle
AngleOfFirstOnly(segment, count) == <<FirstSegment + 1, count>>

\* AngleOf with the segment itself as the multiplier
AngleOfSegment(segment, count) == <<segment, count>>

\* (2 * math.pi / catid_counts[m['supercatid']]) * (segment + 1)
AngleOf(segment, count) == <<segment + 1, count>>

\* if m['angle'] is None and m['supercatid'] == cat_key
TakesAngle(m, cat_key) == m.angle = <<>> /\ m.supercatid = cat_key

\* for m in model: under one cat_key
RECURSIVE AssignKey(_, _, _, _, _)
AssignKey(mdl, counts, cat_key, k, segment) ==
    IF k > Len(mdl) THEN mdl
    ELSE IF TakesAngle(mdl[k], cat_key)
           THEN AssignKey([mdl EXCEPT ![k].angle =
                                AngleOf(segment, Count(counts, mdl[k].supercatid))],
                          counts, cat_key, k + 1, segment + 1)
           ELSE AssignKey(mdl, counts, cat_key, k + 1, segment)

\* for cat_key in catid_counts.keys()
RECURSIVE AssignKeys(_, _, _)
AssignKeys(mdl, counts, keys) ==
    IF keys = <<>> THEN mdl
    ELSE AssignKeys(AssignKey(mdl, counts, Head(keys), 1, FirstSegment),
                    counts, Tail(keys))

AssignAngles(mdl) ==
    AssignKeys(mdl, SupercatidList(mdl), Keys(SupercatidList(mdl), 1))

\* ---------------------------------------------------- do_graph: positions
\* c_x = self.scene.getWidth() / 3 and c_y = self.scene.getHeight() / 2
CenterX(w) == (w * Unit) \div 3
CenterY(h) == (h * Unit) \div 2

\* r * rx_expander, with rx_expander = c_x / c_y = (w / 3) / (h / 2)
RTimesRx(w, h) == RoundDiv(R * Unit * 2 * w, 3 * h)

\* math.cos(angle) * (r * rx_expander) / div
XOffset(angle, div, w, h) == RoundDiv(Cos(angle) * RTimesRx(w, h), Unit * div)

\* math.sin(angle) * r / div
YOffset(angle, div) == RoundDiv(Sin(angle) * R, div)

\* if m['x'] is None and m['supercatid'] is None: the place of a root
PlaceRoot(m, w, h) ==
    [m EXCEPT !.x = CenterX(w) + XOffset(m.angle, 1, w, h),
              !.y = CenterY(h) + YOffset(m.angle, 1)]

\* IsSuperOf with the child's own catid read in place of its supercatid
IsSuperOfByCatid(super_m, m) == super_m.catid = m.catid /\ super_m.x # None

\* if super_m['catid'] == m['supercatid'] and super_m['x'] is not None
IsSuperOf(super_m, m) == super_m.catid = m.supercatid /\ super_m.x # None

\* if abs(super_m['x'] - m['x']) < 20 and abs(super_m['y'] - m['y']) < 20
TooNear(super_m, m) ==
    Abs(super_m.x - m.x) < Nudge * Unit /\ Abs(super_m.y - m.y) < Nudge * Unit

\* m['x'] = super_m['x'] + ... and m['y'] = super_m['y'] + ..., from the
\* position (px, py) that super_m has when the two lines start
MoveFrom(m, px, py, w, h) ==
    [m EXCEPT !.x = px + XOffset(m.angle, m.depth + 2, w, h),
              !.y = py + YOffset(m.angle, m.depth + 2)]

\* if abs(...) < 20 and abs(...) < 20: m['x'] += 20; m['y'] += 20
NudgeIfNear(m, super_m) ==
    IF TooNear(super_m, m)
      THEN [m EXCEPT !.x = m.x + Nudge * Unit, !.y = m.y + Nudge * Unit]
      ELSE m

\* for super_m in model: from index s on.  The loop has no break and reads
\* the list as it stands, so model[k] itself, once placed, is a super_m of a
\* code (a code's catid is its supercatid); super_m then is the very dict
\* that was moved, and the overlap test compares it with itself.
RECURSIVE PlaceChild(_, _, _, _, _)
PlaceChild(mdl, k, s, w, h) ==
    IF s > Len(mdl) THEN mdl
    ELSE IF IsSuperOf(mdl[s], mdl[k])
           THEN LET moved == MoveFrom(mdl[k], mdl[s].x, mdl[s].y, w, h)
                    super_m == IF s = k THEN moved ELSE mdl[s]
                IN  PlaceChild([mdl EXCEPT ![k] = NudgeIfNear(moved, super_m)],
                               k, s + 1, w, h)
           ELSE PlaceChild(mdl, k, s + 1, w, h)

\* the body of "for m in model" of the positioning loop, for m = model[k]
PlaceNode(mdl, k, w, h) ==
    IF mdl[k].x # None THEN mdl
    ELSE IF mdl[k].supercatid = None
           THEN [mdl EXCEPT ![k] = PlaceRoot(mdl[k], w, h)]
           ELSE PlaceChild(mdl, k, 1, w, h)

\* one pass of the while loop: for m in model
RECURSIVE Pass(_, _, _, _)
Pass(mdl, k, w, h) ==
    IF k > Len(mdl) THEN mdl
    ELSE Pass(PlaceNode(mdl, k, w, h), k + 1, w, h)

\* x_is_none after a pass: some m['x'] was still None when its turn ended.
\* A position once set is never unset, so that is: some x is None at the end.
SomeXNone(mdl) == \E k \in 1..Len(mdl) : mdl[k].x = None

\* ------------------------------------------------------- do_graph: clamp
\* Clamp with the upper limit at c * 2, the margin of 20 left out
ClampWithoutMargin(v, c) ==
    LET low == IF v < LowClamp * Unit THEN LowClamp * Unit ELSE v
    IN  IF low > c * 2 THEN c * 2 ELSE low

\* Clamp with the two upper tests left out
ClampLowOnly(v, c) == IF v < LowClamp * Unit THEN LowClamp * Unit ELSE v

\* "Fix out of view items", for one coordinate with c = c_x or c_y
Clamp(v, c) ==
    LET low == IF v < LowClamp * Unit THEN LowClamp * Unit ELSE v
    IN  IF low > c * 2 - Nudge * Unit THEN c * 2 - Nudge * Unit ELSE low

\* ClampRaises as if None compared below every number, as Python 2 has it
ClampNeverRaises(mdl) == FALSE

\* if m['x'] < 2: raises TypeError for the first node whose x is None
ClampRaises(mdl) == \E k \in 1..Len(mdl) : mdl[k].x = None

ClampAll(mdl, w, h) ==
    [k \in 1..Len(mdl) |->
        [mdl[k] EXCEPT !.x = Clamp(mdl[k].x, CenterX(w)),
                       !.y = Clamp(mdl[k].y, CenterY(h))]]

\* ------------------------------------------------------- do_graph: links
\* IsLinked without the test of the two depths
IsLinkedByCatid(m, n) == m.supercatid # None /\ m.supercatid = n.catid

\* m.data['supercatid'] is not None and m.data['supercatid'] == n.data['catid']
\* and n.data['depth'] < m.data['depth']
IsLinked(m, n) ==
    m.supercatid # None /\ m.supercatid = n.catid /\ n.depth < m.depth

\* LinkGraphicsItem(m, n) for every pair of text items that passes the test
LinksOf(its) ==
    {<<a, b>> \in (1..Len(its)) \X (1..Len(its)) : IsLinked(its[a], its[b])}

\* ------------------------------------------------------ the scene's items
\* self.setPos(self.data['x'], self.data['y']) of each TextGraphicsItem
SetPos(its) == [k \in 1..Len(its) |-> <<its[k].x, its[k].y>>]

\* boundingRect() of a TextGraphicsItem, as <<width, height>>.  Qt lays the
\* item's text out: a name n stands for a text of 4 + n % 4 characters of
\* width 10 on 1 + (n \div 4) % 2 lines of height 20.
BoundingRect(data) ==
    <<(4 + (data.name % 4)) * 10 * Unit,
      (1 + ((data.name \div 4) % 2)) * 20 * Unit>>

\* calculatePointsAndDraw on the x axis: from_x and to_x as setLine gets
\* them, from the two pos().x() and the two widths
LineX(from_x, from_w, to_x, to_w) ==
    LET first == to_x > from_x /\ to_x < from_x + from_w
        f1 == IF first THEN from_x + (from_w \div 2) ELSE from_x
        second == f1 > to_x /\ f1 < to_x + to_w
        t1 == IF second THEN to_x + (to_w \div 2) ELSE to_x
        x_overlap == first \/ second
    IN  IF ~ x_overlap /\ t1 > f1 + from_w THEN <<f1 + from_w, t1>>
        ELSE IF ~ x_overlap /\ f1 > t1 + to_w THEN <<f1, t1 + to_w>>
        ELSE <<f1, t1>>

\* calculatePointsAndDraw on the y axis: from_y and to_y as setLine gets them
LineY(from_y, from_h, to_y, to_h) ==
    LET first == to_y > from_y /\ to_y < from_y + from_h
        f1 == IF first THEN from_y + (from_h \div 2) ELSE from_y
        second == f1 > to_y /\ f1 < to_y + to_h
        t1 == IF second THEN to_y + (to_h \div 2) ELSE to_y
        y_overlap == first \/ second
    IN  IF ~ y_overlap /\ t1 > f1 THEN <<f1 + from_h, t1>>
        ELSE IF ~ y_overlap /\ f1 > t1 THEN <<f1, t1 + to_h>>
        ELSE <<f1, t1>>

\* calculatePointsAndDraw: the line between from_widget and to_widget
CalculatePoints(from_pos, from_rect, to_pos, to_rect) ==
    LET lx == LineX(from_pos[1], from_rect[1], to_pos[1], to_rect[1])
        ly == LineY(from_pos[2], from_rect[2], to_pos[2], to_rect[2])
    IN  <<lx[1], ly[1], lx[2], ly[2]>>

\* DrawAll that leaves a link that has a line with the line it has
DrawNew(lnks, its, ps) ==
    [l \in lnks |->
        IF l \in DOMAIN lines
          THEN lines[l]
          ELSE CalculatePoints(ps[l[1]], BoundingRect(its[l[1]]),
                               ps[l[2]], BoundingRect(its[l[2]]))]

\* The line of every link LinkGraphicsItem(m, n), drawn from where the two
\* text items stand
DrawAll(lnks, its, ps) ==
    [l \in lnks |-> CalculatePoints(ps[l[1]], BoundingRect(its[l[1]]),
                                    ps[l[2]], BoundingRect(its[l[2]]))]

\* item.data['x'] = item.pos().x() and item.data['y'] = item.pos().y(), for
\* every text item
RecordPos(its, ps) ==
    [k \in 1..Len(its) |-> [its[k] EXCEPT !.x = ps[k][1], !.y = ps[k][2]]]

\* ------------------------------------------------------------- the store
\* The memo columns of code_cat and code_name, row by row with the row's key
StoreOf(cats, codes) ==
    [code_cat |-> [k \in 1..Len(cats) |-> [catid |-> cats[k].catid, memo |-> cats[k].memo]],
     code_name |-> [k \in 1..Len(codes) |-> [cid |-> codes[k].cid, memo |-> codes[k].memo]]]

\* if data['cid'] is not None
IsCodeData(data) == data.cid # None

\* IsCategoryData without the test of cid
HasCatid(data) == data.catid # None

\* if data['catid'] is not None and data['cid'] is None
IsCategoryData(data) == data.catid # None /\ data.cid = None

\* update code_name set memo=? where cid=?
UpdateCodeName(rows, memo, cid) ==
    [k \in 1..Len(rows) |-> IF rows[k].cid = cid THEN [rows[k] EXCEPT !.memo = memo]
                                                 ELSE rows[k]]

\* update code_cat set memo=? where catid=?
UpdateCodeCat(rows, memo, catid) ==
    [k \in 1..Len(rows) |-> IF rows[k].catid = catid THEN [rows[k] EXCEPT !.memo = memo]
                                                     ELSE rows[k]]

\* ------------------------------------------------------------ the dialog
\* do_graph's locals while no do_graph runs
NoLocals ==
    /\ model' = <<>>
    /\ mi' = 0
    /\ supercatid' = None
    /\ depth' = 0
    /\ i' = 0
    /\ x_is_none' = FALSE

\* ViewGraph.__init__ over a store holding the lists h, and a fresh scene
InitWith(h) ==
    /\ categories = h[1]
    /\ code_names = h[2]
    /\ sceneWidth = DefaultWidth
    /\ sceneHeight = DefaultHeight
    /\ items = <<>>
    /\ links = {}
    /\ pc = "idle"
    /\ model = <<>>
    /\ mi = 0
    /\ supercatid = None
    /\ depth = 0
    /\ i = 0
    /\ x_is_none = FALSE
    /\ raised = FALSE
    /\ top = NoNode
    /\ pos = <<>>
    /\ lines = <<>>
    /\ db = StoreOf(h[1], h[2])

Init == \E h \in Hierarchies(MaxNodes) : InitWith(h)

\* GraphicsScene.setWidth
SetWidth(width) ==
    /\ pc \in {"idle", "done"}
    /\ sceneWidth' = width
    /\ UNCHANGED <<categories, code_names, sceneHeight, items, links, pc, model,
                   mi, supercatid, depth, i, x_is_none, raised, top, pos, lines, db>>

\* GraphicsScene.setHeight
SetHeight(height) ==
    /\ pc \in {"idle", "done"}
    /\ sceneHeight' = height
    /\ UNCHANGED <<categories, code_names, sceneWidth, items, links, pc, model,
                   mi, supercatid, depth, i, x_is_none, raised, top, pos, lines, db>>

\* The depth loop standing at model[k], or past the end of the list: its
\* locals as "for c in model" sets them before the while loop.
EnterDepth(mdl, k) ==
    /\ mi' = k
    /\ depth' = 0
    /\ IF k > Len(mdl)
         THEN pc' = "angles" /\ supercatid' = None
         ELSE pc' = "depth" /\ supercatid' = mdl[k].supercatid

\* do_graph from its first line to the first test of the depth loop's while:
\* the scene cleared, the node list built and cut down to the chosen subtree
DoGraphBegin(text) ==
    /\ pc \in {"idle", "done"}
    /\ items' = <<>>
    /\ links' = {}
    /\ pos' = <<>>
    /\ lines' = <<>>
    /\ raised' = FALSE
    /\ top' = TopNode(text, categories)
    /\ model' = GetNodeWithChildren(top', BuildModel(categories, code_names))
    /\ EnterDepth(model', NextWithParent(model', 1))
    /\ i' = 0
    /\ x_is_none' = FALSE
    /\ UNCHANGED <<categories, code_names, sceneWidth, sceneHeight, db>>

\* One turn of "while supercatid is not None": the for loop over cats, then
\* c['depth'] = depth; when the while loop ends with it, on to the next c.
\* A chain of more hops than there are categories passes some category twice
\* and never ends: the loop goes on and the model stops counting its hops.
DepthWhile ==
    /\ pc = "depth"
    /\ supercatid # None
    /\ LET swept == Sweep(categories, 1, supercatid, depth)
           after == IF depth > Len(categories) THEN <<swept[1], depth>> ELSE swept
           mdl == [model EXCEPT ![mi].depth = after[2]]
       IN  /\ model' = mdl
           /\ IF after[1] = None
                THEN EnterDepth(mdl, NextWithParent(mdl, mi + 1))
                ELSE /\ supercatid' = after[1]
                     /\ depth' = after[2]
                     /\ UNCHANGED <<mi, pc>>
    /\ UNCHANGED <<categories, code_names, sceneWidth, sceneHeight, items, links,
                   i, x_is_none, raised, top, pos, lines, db>>

\* catid_counts and the angle loop, up to the first test of the positioning
\* loop's while
DoAngles ==
    /\ pc = "angles"
    /\ model' = AssignAngles(model)
    /\ i' = 0
    /\ x_is_none' = TRUE
    /\ pc' = "position"
    /\ UNCHANGED <<categories, code_names, sceneWidth, sceneHeight, items, links,
                   mi, supercatid, depth, raised, top, pos, lines, db>>

\* One pass of "while x_is_none and i < 1000".  A pass that changes nothing
\* and leaves a node unplaced is followed by passes that do the same until
\* i reaches 1000: they are taken in the same step.
PositionPass ==
    /\ pc = "position"
    /\ x_is_none
    /\ i < MaxPasses
    /\ model' = Pass(model, 1, sceneWidth, sceneHeight)
    /\ x_is_none' = SomeXNone(model')
    /\ i' = IF model' = model /\ x_is_none' THEN MaxPasses ELSE i + 1
    /\ UNCHANGED <<categories, code_names, sceneWidth, sceneHeight, items, links,
                   pc, mi, supercatid, depth, raised, top, pos, lines, db>>

\* After the positioning loop: the clamp, the text items and the links.
\* m['x'] < 2 raises TypeError for a node whose x is None; the exception
\* reaches sys.excepthook and do_graph ends with the scene as it cleared it.
DoGraphEnd ==
    /\ pc = "position"
    /\ ~ (x_is_none /\ i < MaxPasses)
    /\ IF ClampRaises(model)
         THEN /\ raised' = TRUE
              /\ UNCHANGED <<items, links, pos, lines>>
         ELSE /\ raised' = FALSE
              /\ items' = ClampAll(model, sceneWidth, sceneHeight)
              /\ pos' = SetPos(items')
              /\ links' = LinksOf(items')
              /\ lines' = DrawAll(links', items', pos')
    /\ pc' = "done"
    /\ NoLocals
    /\ UNCHANGED <<categories, code_names, sceneWidth, sceneHeight, top, db>>

Next ==
    \/ \E text \in {All} \cup (1..Len(categories)) : DoGraphBegin(text)
    \/ DepthWhile
    \/ DoAngles
    \/ PositionPass
    \/ DoGraphEnd
    \/ \E width \in {DefaultWidth, OtherWidth, SmallWidth} : SetWidth(width)
    \/ \E height \in {DefaultHeight, OtherHeight, SmallHeight} : SetHeight(height)

Spec == Init /\ [][Next]_vars

\* A running do_graph goes on running: its steps are not left waiting.
DoGraphStep == DepthWhile \/ DoAngles \/ PositionPass \/ DoGraphEnd

FairSpec == Init /\ [][Next]_vars /\ WF_vars(DoGraphStep)

\* ------------------------------------------------ the events of the scene
\* The places an item is dragged to, the texts typed into an item and the
\* memos entered in DialogMemo.
DragTargets == {<<130 * Unit, 110 * Unit>>}
EditedNames == {5}
Memos == {1}

\* GraphicsScene.mouseMoveEvent while the item k is dragged to the place p
\* (k = 0: the mouse moves with no item held).  The base class call moves the
\* held item; the handler then copies every item's pos() to its data and
\* redraws every link.
MouseMoveEvent(k, p) ==
    /\ pc \in {"idle", "done"}
    /\ pos' = IF k = 0 THEN pos ELSE [pos EXCEPT ![k] = p]
    /\ items' = RecordPos(items, pos')
    /\ lines' = DrawAll(links, items', pos')
    /\ UNCHANGED <<categories, code_names, sceneWidth, sceneHeight, links, pc,
                   model, mi, supercatid, depth, i, x_is_none, raised, top, db>>

\* TextGraphicsItem.text_changed of the item k, its document now being text
TextChanged(k, text) ==
    /\ pc \in {"idle", "done"}
    /\ items' = [items EXCEPT ![k].name = text]
    /\ UNCHANGED <<categories, code_names, sceneWidth, sceneHeight, links, pc,
                   model, mi, supercatid, depth, i, x_is_none, raised, top, pos,
                   lines, db>>

\* TextGraphicsItem.add_edit_memo of the item k, DialogMemo giving back memo
AddEditMemo(k, memo) ==
    /\ pc \in {"idle", "done"}
    /\ LET data == items[k]
           db1 == IF IsCodeData(data)
                    THEN [db EXCEPT !.code_name = UpdateCodeName(@, memo, data.cid)]
                    ELSE db
           db2 == IF IsCategoryData(data)
                    THEN [db1 EXCEPT !.code_cat = UpdateCodeCat(@, memo, data.catid)]
                    ELSE db1
       IN  /\ items' = IF IsCodeData(data) \/ IsCategoryData(data)
                         THEN [items EXCEPT ![k].memo = memo]
                         ELSE items
           /\ db' = db2
    /\ UNCHANGED <<categories, code_names, sceneWidth, sceneHeight, links, pc,
                   model, mi, supercatid, depth, i, x_is_none, raised, top, pos,
                   lines>>

\* The most rows the stored lists of a session with edits hold.
SessionNodes == 3

SessionInit == \E h \in Hierarchies(SessionNodes) : InitWith(h)

\* One session of the dialog: renders, between them drags, text edits and
\* memo edits of the items shown, and the canvas made narrower.
SessionNext ==
    \/ \E text \in {All} \cup (1..Len(categories)) : DoGraphBegin(text)
    \/ DepthWhile
    \/ DoAngles
    \/ PositionPass
    \/ DoGraphEnd
    \/ \E k \in 0..Len(items), p \in DragTargets : MouseMoveEvent(k, p)
    \/ \E k \in 1..Len(items), text \in EditedNames : TextChanged(k, text)
    \/ \E k \in 1..Len(items), memo \in Memos : AddEditMemo(k, memo)
    \/ SetWidth(OtherWidth)

SessionSpec == SessionInit /\ [][SessionNext]_vars

\* ------------------------------------------------- one link, moved about
\* The step of the grid the child's item is dragged over, and how many steps
\* the grid has on each axis.
GridStep == 10
GridColumns == 20
GridRows == 12

\* The places the item k of a parent and its child is dragged to: the parent
\* (item 1) to one place, the child over a grid around it.
LinkPlaces(k) ==
    IF k = 1 THEN {<<100 * Unit, 100 * Unit>>}
    ELSE {<<c * GridStep * Unit, (4 + r) * GridStep * Unit>> :
             c \in 0..GridColumns, r \in 0..GridRows}

\* The texts typed into the two items: one line and two lines.
LinkNames == {1, 6}

\* A category and a child category of it, in a fresh dialog.
LinkInit == InitWith(<< <<CatRow(1, None), CatRow(2, 1)>>, <<>> >>)

\* Renders of the two, and between them the two items dragged and retitled.
LinkNext ==
    \/ DoGraphBegin(All)
    \/ DepthWhile
    \/ DoAngles
    \/ PositionPass
    \/ DoGraphEnd
    \/ \E k \in 1..Len(items) : \E p \in LinkPlaces(k) : MouseMoveEvent(k, p)
    \/ \E k \in 1..Len(items), text \in LinkNames : TextChanged(k, text)

LinkSpec == LinkInit /\ [][LinkNext]_vars

\* ----------------------------------- get_node_with_children, called directly
\* The stored lists the function is tried on: the small hierarchies and the
\* long chains.
SubtreeInputs ==
    Hierarchies(MaxNodes - 1)
      \cup {Chain(n, rev) : n \in 1..ChainLen, rev \in BOOLEAN}

SubtreeInit == \E h \in SubtreeInputs : InitWith(h)

\* get_node_with_children(node, model) on the node list do_graph builds; the
\* list it returns is kept in model.
CallGetNodeWithChildren(node) ==
    /\ pc = "idle"
    /\ top' = node
    /\ model' = GetNodeWithChildren(node, BuildModel(categories, code_names))
    /\ pc' = "returned"
    /\ UNCHANGED <<categories, code_names, sceneWidth, sceneHeight, items, links,
                   mi, supercatid, depth, i, x_is_none, raised, pos, lines, db>>

SubtreeNext ==
    \E node \in {NoNode} \cup
                {BuildModel(categories, code_names)[k] :
                    k \in 1..(Len(categories) + Len(code_names))} :
        CallGetNodeWithChildren(node)

SubtreeSpec == SubtreeInit /\ [][SubtreeNext]_vars

\* ============================================================ properties
\* The category row with this id, when there is one.
HasCategory(cats, id) == \E k \in 1..Len(cats) : cats[k].catid = id
CategoryOf(cats, id) == cats[CHOOSE k \in 1..Len(cats) : cats[k].catid = id]

\* The parent chain from id ends (at None, or at an id that names no
\* category) within fuel hops.
RECURSIVE ChainEnds(_, _, _)
ChainEnds(cats, id, fuel) ==
    IF id = None \/ ~ HasCategory(cats, id) THEN TRUE
    ELSE IF fuel = 0 THEN FALSE
    ELSE ChainEnds(cats, CategoryOf(cats, id).supercatid, fuel - 1)

\* No category is its own ancestor.
Acyclic(cats) ==
    \A k \in 1..Len(cats) : ChainEnds(cats, cats[k].supercatid, Len(cats))

\* The number of parent hops from the parent id `id` up to the category
\* topid: 1 when id is topid itself, 0 when topid is not on the chain.
RECURSIVE HopsTo(_, _, _, _)
HopsTo(cats, id, topid, fuel) ==
    IF id = None \/ ~ HasCategory(cats, id) \/ fuel = 0 THEN 0
    ELSE IF id = topid THEN 1
    ELSE LET above == HopsTo(cats, CategoryOf(cats, id).supercatid, topid, fuel - 1)
         IN  IF above = 0 THEN 0 ELSE above + 1

\* How many levels below the category topid the node m hangs: 0 when it is
\* no descendant of it.
LevelBelow(m, topid) == HopsTo(categories, m.supercatid, topid, Len(categories) + 1)

\* The positioning loop of do_graph has ended and the clamp has not begun.
LoopEnded == pc = "position" /\ ~ (x_is_none /\ i < MaxPasses)

\* The category node of a list that a node names as its parent.
IsParentOf(p, m) == p.cid = None /\ m.supercatid # None /\ p.catid = m.supercatid

\* Every parent reference of the node list names a category of the list.
ParentsInList(mdl) ==
    \A k \in 1..Len(mdl) :
        mdl[k].supercatid = None \/ \E j \in 1..Len(mdl) : IsParentOf(mdl[j], mdl[k])

SubtreeNames(t) ==
    LET all == BuildModel(categories, code_names)
    IN  IF t = NoNode
          THEN {all[k].name : k \in 1..Len(all)}
          ELSE {t.name} \cup
               {all[k].name : k \in {j \in 1..Len(all) : LevelBelow(all[j], t.catid) >= 1}}

\* C2: over an acyclic hierarchy, when do_graph has returned the scene holds
\* exactly one text item for each node of the chosen subtree (every node for
\* "All"), each with an x and a y.
C2_RenderShowsSubtree ==
    (pc = "done" /\ Acyclic(categories)) =>
        /\ {items[k].name : k \in 1..Len(items)} = SubtreeNames(top)
        /\ Len(items) = Cardinality(SubtreeNames(top))
        /\ \A k \in 1..Len(items) : items[k].x # None /\ items[k].y # None

\* C3: when the positioning loop has ended, every node with a parent stands
\* at its parent category's position plus
\* (cos(angle) * r * rx / (depth + 2), sin(angle) * r / (depth + 2)),
\* or 20 further on both axes when that place was within 20 of the parent.
C3_ChildPlacedFromParent ==
    LoopEnded =>
        \A k, j \in 1..Len(model) :
            (IsParentOf(model[j], model[k]) /\ model[k].x # None /\ model[j].x # None) =>
                LET ex == model[j].x + XOffset(model[k].angle, model[k].depth + 2,
                                               sceneWidth, sceneHeight)
                    ey == model[j].y + YOffset(model[k].angle, model[k].depth + 2)
                IN  \/ model[k].x = ex /\ model[k].y = ey
                    \/ /\ Abs(model[j].x - ex) < Nudge * Unit
                       /\ Abs(model[j].y - ey) < Nudge * Unit
                       /\ model[k].x = ex + Nudge * Unit
                       /\ model[k].y = ey + Nudge * Unit

\* The members of the group of model[k]: the indices of the nodes with its
\* supercatid, and how many of them come before it in the list.
Group(mdl, k) == {j \in 1..Len(mdl) : mdl[j].supercatid = mdl[k].supercatid}
RankInGroup(mdl, k) == Cardinality({j \in Group(mdl, k) : j < k})

\* The angle loop of do_graph has ended.
AnglesAssigned == pc = "position"

\* C4 as stated: after the angle loop the angles of a group are pairwise
\* distinct and every angle a has 0 <= a < 2*pi.
C4_AnglesBelowFullTurn ==
    AnglesAssigned =>
        \A k \in 1..Len(model) :
            /\ model[k].angle # <<>>
            /\ \A j \in Group(model, k) \ {k} : model[j].angle # model[k].angle
            /\ 0 <= model[k].angle[1]
            /\ model[k].angle[1] < model[k].angle[2]

\* C4 as amended: after the angle loop the angles of a group of k nodes are
\* pairwise distinct, also as directions (modulo 2*pi), and every angle a has
\* 2*pi / k < a <= 2*pi + 2*pi / k.
C4_AnglesDistinct ==
    AnglesAssigned =>
        \A k \in 1..Len(model) :
            /\ model[k].angle # <<>>
            /\ model[k].angle[2] = Cardinality(Group(model, k))
            /\ \A j \in Group(model, k) \ {k} :
                  /\ model[j].angle # model[k].angle
                  /\ model[j].angle[1] % model[j].angle[2]
                       # model[k].angle[1] % model[k].angle[2]
            /\ 1 < model[k].angle[1]
            /\ model[k].angle[1] <= model[k].angle[2] + 1

\* C4's case: the angles are assigned and some group has three members.
C4_Witness ==
    /\ AnglesAssigned
    /\ \E k \in 1..Len(model) :
          Cardinality(Group(model, k)) = 3 /\ model[k].angle = <<4, 3>>

\* C5 as stated: the i-th member of a group of k, counted from 0 in list
\* order, has the angle (2*pi / k) * (i + 1), from the angle loop on.
C5_AngleIsRankPlusOne ==
    AnglesAssigned =>
        \A k \in 1..Len(model) :
            model[k].angle =
                <<RankInGroup(model, k) + 1, Cardinality(Group(model, k))>>

\* C5 as amended: the i-th member of a group of k, counted from 0 in list
\* order, has the angle (2*pi / k) * (i + 2); every node has that one angle
\* from the end of the angle loop through every positioning pass, and its
\* text item carries it when do_graph has returned.
C5_AngleIsRankPlusTwo ==
    /\ AnglesAssigned =>
          \A k \in 1..Len(model) :
              model[k].angle =
                  <<RankInGroup(model, k) + 2, Cardinality(Group(model, k))>>
    /\ pc = "done" =>
          \A k \in 1..Len(items) :
              items[k].angle =
                  <<RankInGroup(items, k) + 2, Cardinality(Group(items, k))>>

\* C5's case: a second positioning pass has run over a list in which two
\* nodes share a parent category, the second of them with the angle
\* (2*pi / 2) * 3.
C5_Witness ==
    /\ pc = "position"
    /\ i >= 2
    /\ \E k \in 1..Len(model) :
          /\ model[k].supercatid # None
          /\ RankInGroup(model, k) = 1
          /\ model[k].angle = <<3, 2>>

\* C6: every do_graph that has begun returns, whatever the stored lists
\* hold (cyclic and unresolved parent references included).
C6_RenderTerminates == (pc \in {"depth", "angles", "position"}) ~> (pc = "done")

\* C7: when do_graph has returned, no text item is within 20 units of its
\* parent category's item on both axes at once.
C7_NoChildOnParent ==
    pc = "done" =>
        \A k, j \in 1..Len(items) :
            IsParentOf(items[j], items[k]) =>
                \/ Abs(items[k].x - items[j].x) >= Nudge * Unit
                \/ Abs(items[k].y - items[j].y) >= Nudge * Unit

\* The scenario of C8: one root category, two codes under it, on a canvas
\* of 900 x 600.
Scenario ==
    /\ categories = <<CatRow(1, None)>>
    /\ code_names = <<CodeRow(1, 1, 1), CodeRow(2, 1, 1)>>
    /\ sceneWidth = 900
    /\ sceneHeight = 600

\* do_graph returns in this step, with its text items in the scene.
Returns == pc = "position" /\ pc' = "done" /\ ~ raised'

\* No code item of the scenario is within 20 units of the root item on both
\* axes.
ScenarioCodesClear(its) ==
    \A k \in 2..3 : \/ Abs(its[k].x - its[1].x) >= Nudge * Unit
                    \/ Abs(its[k].y - its[1].y) >= Nudge * Unit

Occurrences(mdl, m) == Cardinality({k \in 1..Len(mdl) : mdl[k] = m})

\* C9: get_node_with_children called with a code of some category as the
\* subtree root (a code has no children) returns a list holding that code
\* and nothing else: no sibling, and the code itself once.
C9_LeafCodeAlone ==
    (/\ pc = "returned"
     /\ top # NoNode
     /\ top.cid # None
     /\ HasCategory(categories, top.catid)) => model = <<top>>

\* C10: get_node_with_children returns the whole node list when no root is
\* chosen; for a category over an acyclic hierarchy it returns that category
\* first, then every node 1 to 10 levels below it, each once, and no other
\* node.
C10_SubtreeExact ==
    LET all == BuildModel(categories, code_names)
    IN  pc = "returned" =>
          /\ top = NoNode => model = all
          /\ (top # NoNode /\ top.cid = None /\ Acyclic(categories)) =>
                /\ model[1] = top
                /\ \A k \in 1..Len(model) : \E j \in 1..Len(all) : model[k] = all[j]
                /\ \A j \in 1..Len(all) :
                      Occurrences(model, all[j]) =
                          IF \/ all[j] = top
                             \/ LevelBelow(all[j], top.catid) \in 1..10
                            THEN 1 ELSE 0

\* C10's case: the root of a chain of twelve categories was chosen, and the
\* list returned stops ten levels down, short of the twelfth category and
\* of the code under it.
C10_Witness ==
    /\ pc = "returned"
    /\ top # NoNode
    /\ top.cid = None
    /\ top.supercatid = None
    /\ Len(categories) = 12
    /\ Acyclic(categories)
    /\ Len(model) = 11
    /\ \E j \in 1..Len(categories) :
          LevelBelow(CatNode(categories[j]), top.catid) = 11

\* The depth loop of do_graph has ended.
DepthsComputed == pc \in {"angles", "position"}

\* In a node list every node with no parent has depth 0, and every node whose
\* parent category is in the list is one deeper than it.
DepthsStep(mdl) ==
    \A k \in 1..Len(mdl) :
        /\ mdl[k].supercatid = None => mdl[k].depth = 0
        /\ \A j \in 1..Len(mdl) :
              IsParentOf(mdl[j], mdl[k]) => mdl[k].depth = mdl[j].depth + 1

\* C11: after the depth loop of a render, whatever the order of the
\* category list and whether every node or one subtree is displayed, every
\* displayed node without a parent has depth 0 and every displayed node whose
\* parent category is displayed has its parent's depth plus 1; the text items
\* carry those depths when do_graph has returned.
C11_DepthIsParentsPlusOne ==
    /\ DepthsComputed => DepthsStep(model)
    /\ pc = "done" => DepthsStep(items)

\* C11's case: the depths are computed for the subtree of a chosen category
\* that holds a node two levels down, whose parent category is listed after
\* its own child category.
C11_Witness ==
    /\ pc = "angles"
    /\ top # NoNode
    /\ \E k, j \in 1..Len(model) :
          /\ IsParentOf(model[j], model[k])
          /\ model[k].depth = 2
          /\ model[j].depth = 1
          /\ \E a, b \in 1..Len(categories) :
                /\ a < b
                /\ categories[a].catid = model[k].catid /\ model[k].cid = None
                /\ categories[b].catid = model[j].catid

Min(a, b) == IF a < b THEN a ELSE b
Max(a, b) == IF a > b THEN a ELSE b

\* C12 as stated: the clamp of a returning do_graph maps every node's x to
\* min(max(x, 2), width * 2 - 20) and its y to min(max(y, 2), height * 2 - 20),
\* width and height being the scene's.
C12_ClampToTwiceCanvas ==
    [][Returns =>
          /\ Len(items') = Len(model)
          /\ \A k \in 1..Len(model) :
                /\ items'[k].x = Min(Max(model[k].x, 2 * Unit),
                                     sceneWidth * 2 * Unit - 20 * Unit)
                /\ items'[k].y = Min(Max(model[k].y, 2 * Unit),
                                     sceneHeight * 2 * Unit - 20 * Unit)]_vars

\* C12 as amended: the clamp of a returning do_graph maps every node's x to
\* min(max(x, 2), c_x * 2 - 20) with c_x = width / 3 and its y to
\* min(max(y, 2), c_y * 2 - 20) with c_y = height / 2: a coordinate inside
\* the range is unchanged, one below 2 becomes 2, one above the upper limit
\* becomes that limit; nothing else of a node changes.
C12_ClampToCentreTwice ==
    [][Returns =>
          /\ Len(items') = Len(model)
          /\ \A k \in 1..Len(model) :
                LET hx == 2 * ((sceneWidth * Unit) \div 3) - 20 * Unit
                    hy == 2 * ((sceneHeight * Unit) \div 2) - 20 * Unit
                IN  /\ items'[k].x = Min(Max(model[k].x, 2 * Unit), hx)
                    /\ items'[k].y = Min(Max(model[k].y, 2 * Unit), hy)
                    /\ model[k].x \in (2 * Unit)..hx => items'[k].x = model[k].x
                    /\ model[k].y \in (2 * Unit)..hy => items'[k].y = model[k].y
                    /\ items'[k] = [model[k] EXCEPT !.x = items'[k].x,
                                                    !.y = items'[k].y]]_vars

\* C12's case: do_graph has returned with one item moved up to 2, one moved
\* down to the upper limit and one strictly inside, on the x axis, and one
\* moved to each limit on the y axis.
C12_Witness ==
    LET hx == 2 * ((sceneWidth * Unit) \div 3) - 20 * Unit
        hy == 2 * ((sceneHeight * Unit) \div 2) - 20 * Unit
    IN  /\ pc = "done"
        /\ \E a, b, c \in 1..Len(items) :
              /\ items[a].x = 2 * Unit
              /\ items[b].x = hx
              /\ items[c].x > 2 * Unit /\ items[c].x < hx
        /\ \E a, b \in 1..Len(items) : items[a].y = 2 * Unit /\ items[b].y = hy

\* The line calculatePointsAndDraw gives the link l for the items and places.
LineOf(l, its, ps) ==
    CalculatePoints(ps[l[1]], BoundingRect(its[l[1]]), ps[l[2]], BoundingRect(its[l[2]]))

\* C13: in a step of the mouse-move handler that moves one item k, the data
\* x and y of k become its new place, the data x and y and the place of
\* every other item stay as they were, no link is added or removed, and the
\* line of every link of the scene is the one computed from the places its
\* two items now have.
C13_DragMovesOneNode ==
    [][\A k \in 1..Len(pos) :
          (Len(pos') = Len(pos) /\ pos'[k] # pos[k]) =>
              /\ items'[k].x = pos'[k][1] /\ items'[k].y = pos'[k][2]
              /\ \A j \in (1..Len(items)) \ {k} :
                    /\ pos'[j] = pos[j]
                    /\ items'[j].x = items[j].x /\ items'[j].y = items[j].y
              /\ links' = links
              /\ DOMAIN lines' = links
              /\ \A l \in links : lines'[l] = LineOf(l, items', pos')]_vars

\* C13's case: of three items joined by two links one stands where it was
\* dragged to, the other two where do_graph put them, and both links have
\* the line computed from those places.
C13_Witness ==
    /\ pc = "done"
    /\ Len(items) = 3
    /\ Cardinality(links) = 2
    /\ \E k \in 1..3 :
          /\ pos[k] \in DragTargets
          /\ \A j \in (1..3) \ {k} : pos[j] \notin DragTargets
          /\ \E l \in links : l[1] = k \/ l[2] = k
          /\ \E l \in links : l[1] # k /\ l[2] # k
    /\ \A j \in 1..3 : items[j].x = pos[j][1] /\ items[j].y = pos[j][2]
    /\ \A l \in links : lines[l] = LineOf(l, items, pos)

\* The depth the depth loop leaves a node with, from its supercatid.
RECURSIVE DepthFrom(_, _, _, _)
DepthFrom(cats, sup, d, fuel) ==
    IF sup = None \/ fuel = 0 THEN d
    ELSE LET swept == Sweep(cats, 1, sup, d)
         IN  DepthFrom(cats, swept[1], swept[2], fuel - 1)

\* The node list after as many positioning passes as it takes.
RECURSIVE Placed(_, _, _, _)
Placed(mdl, w, h, fuel) ==
    IF fuel = 0 \/ \A k \in 1..Len(mdl) : mdl[k].x # None THEN mdl
    ELSE Placed(Pass(mdl, 1, w, h), w, h, fuel - 1)

\* The text items of a render as a function of the stored lists, the chosen
\* root and the canvas size.
Layout(cats, codes, t, w, h) ==
    LET chosen == GetNodeWithChildren(t, BuildModel(cats, codes))
        deep == [k \in 1..Len(chosen) |->
                    [chosen[k] EXCEPT
                        !.depth = DepthFrom(cats, chosen[k].supercatid, 0, Len(cats) + 1)]]
    IN  ClampAll(Placed(AssignAngles(deep), w, h, Len(deep) + 1), w, h)

\* C14: no step of a session changes the stored category and code lists,
\* and the text items a render returns with (names, depths, angles and
\* positions) are a function of the stored lists, the chosen root and the
\* canvas size alone, whatever was dragged or edited before the render.
C14_RenderDependsOnInputsOnly ==
    [][/\ categories' = categories
       /\ code_names' = code_names
       /\ Returns => /\ items' = Layout(categories, code_names, top,
                                         sceneWidth, sceneHeight)
                     /\ pos' = SetPos(items')]_vars

\* C14's case: a render of three nodes has returned after an earlier render
\* whose items were edited: the store holds a memo that no item shows.
C14_Witness ==
    /\ pc = "done"
    /\ ~ raised
    /\ Len(items) = 3
    /\ \A k \in 1..3 : items[k].memo = 0
    /\ \E k \in 1..Len(db.code_cat) : db.code_cat[k].memo # 0
    /\ \E k \in 1..Len(db.code_name) : db.code_name[k].memo # 0
    /\ items = Layout(categories, code_names, top, sceneWidth, sceneHeight)

\* The extents [f, f + fl] and [t, t + tl] of two boxes on one axis overlap;
\* two boxes that start at the same coordinate do.
Overlap(f, fl, t, tl) == f < t + tl /\ t < f + fl

\* The two ends of a link on one axis as the claim C15 has them: the
\* midpoints of the two boxes when the extents overlap, else for each box
\* the edge that faces the other box.
Anchors(f, fl, t, tl) ==
    IF Overlap(f, fl, t, tl) THEN <<f + (fl \div 2), t + (tl \div 2)>>
    ELSE IF t >= f + fl THEN <<f + fl, t>>
    ELSE <<f, t + tl>>

\* C15: whenever a link is drawn, by the render that makes it or by the
\* redraw of a mouse move, its line runs, on each axis
\* by itself, between the midpoints of its two boxes when their extents
\* overlap on that axis (boxes starting at the same coordinate included),
\* and between the two facing edges when they do not.
C15_LinkAnchors ==
    [][(\/ Returns
        \/ /\ pc = "done" /\ pc' = "done"
           /\ Len(items') = Len(items)
           /\ \A k \in 1..Len(items) : items'[k].name = items[k].name) =>
          \A l \in links' :
              LET fr == BoundingRect(items'[l[1]])
                  tr == BoundingRect(items'[l[2]])
                  ax == Anchors(pos'[l[1]][1], fr[1], pos'[l[2]][1], tr[1])
                  ay == Anchors(pos'[l[1]][2], fr[2], pos'[l[2]][2], tr[2])
              IN  lines'[l] = <<ax[1], ay[1], ax[2], ay[2]>>]_vars

\* The store after the memo of the row of the node data, and of no other
\* row, became memo.
RowEdited(old, new, data, memo) ==
    /\ Len(new.code_name) = Len(old.code_name)
    /\ Len(new.code_cat) = Len(old.code_cat)
    /\ \A j \in 1..Len(old.code_name) :
          /\ new.code_name[j].cid = old.code_name[j].cid
          /\ new.code_name[j].memo =
                IF data.cid # None /\ old.code_name[j].cid = data.cid
                  THEN memo ELSE old.code_name[j].memo
    /\ \A j \in 1..Len(old.code_cat) :
          /\ new.code_cat[j].catid = old.code_cat[j].catid
          /\ new.code_cat[j].memo =
                IF data.cid = None /\ old.code_cat[j].catid = data.catid
                  THEN memo ELSE old.code_cat[j].memo

\* C16: a step that changes the memo of an item k is a memo edit: after it
\* the store's row of that code or category holds the item's new memo and
\* every other row is as before, and nothing else of the scene changes; a
\* step that changes the store is such a memo edit; a step that changes an
\* item's name or position (a text edit, a drag) leaves the store as it was.
C16_OnlyMemoEditsReachStore ==
    [][/\ \A k \in 1..Len(items) :
             (Len(items') = Len(items) /\ items'[k].memo # items[k].memo) =>
                 /\ items' = [items EXCEPT ![k].memo = items'[k].memo]
                 /\ RowEdited(db, db', items[k], items'[k].memo)
                 /\ pos' = pos
       /\ db' # db =>
             /\ Len(items') = Len(items)
             /\ \E k \in 1..Len(items) : items'[k].memo # items[k].memo
       /\ (/\ Len(items') = Len(items)
           /\ \E k \in 1..Len(items) :
                 \/ items'[k].name # items[k].name
                 \/ items'[k].x # items[k].x \/ items'[k].y # items[k].y
                 \/ pos'[k] # pos[k]) => db' = db]_vars

\* The memo the store holds for the row of the node data.
StoredMemo(store, data) ==
    IF data.cid # None
      THEN LET r == CHOOSE j \in 1..Len(store.code_name) :
                        store.code_name[j].cid = data.cid
           IN  store.code_name[r].memo
      ELSE LET r == CHOOSE j \in 1..Len(store.code_cat) :
                        store.code_cat[j].catid = data.catid
           IN  store.code_cat[r].memo

\* C16's case: of a category and two codes of it on the scene, one code has
\* a new memo, in its item and in its row of the store, and the rows of the
\* category and of the other code hold the memos they had; the other code
\* has been retitled and dragged.
C16_Witness ==
    /\ pc = "done"
    /\ Len(items) = 3
    /\ \E k, j, c \in 1..3 :
          /\ items[k].cid # None /\ items[j].cid # None /\ k # j
          /\ items[c].cid = None /\ items[c].catid = items[k].catid
          /\ items[k].memo = 1 /\ StoredMemo(db, items[k]) = 1
          /\ items[j].memo = 0 /\ StoredMemo(db, items[j]) = 0
          /\ items[c].memo = 0 /\ StoredMemo(db, items[c]) = 0
          /\ items[j].name \in EditedNames
          /\ pos[j] \in DragTargets

\* C17: a render whose positioning loop has ended with a node still without
\* a position returns with an exception raised and with no text item, no
\* link and no line on the scene, whatever the scene held before it.
C17_NoPartialGraph ==
    [][(/\ pc = "position"
        /\ pc' = "done"
        /\ \E k \in 1..Len(model) : model[k].x = None) =>
          /\ raised'
          /\ items' = <<>> /\ pos' = <<>>
          /\ links' = {} /\ lines' = <<>>]_vars

\* C17's case: a render of a chosen category and two nodes under it has
\* returned with the exception raised, the chosen category being a child of
\* another, on a store whose memo shows that an earlier render put items on
\* the scene.
C17_Witness ==
    /\ pc = "done"
    /\ raised
    /\ items = <<>>
    /\ links = {}
    /\ top # NoNode
    /\ top.supercatid # None
    /\ Len(categories) + Len(code_names) = 3
    /\ \E k \in 1..Len(db.code_cat) : db.code_cat[k].memo # 0

\* C18: when do_graph has returned, the links of the scene are exactly the
\* pairs of an item and the item of its parent category: every item whose
\* parent category is shown has one link, which goes to that category, no
\* link joins two codes, and an item with no parent or whose parent is not
\* shown has no link to a parent.
C18_LinksAreParentPairs ==
    pc = "done" =>
        /\ links = {l \in (1..Len(items)) \X (1..Len(items)) :
                        IsParentOf(items[l[2]], items[l[1]])}
        /\ \A a \in 1..Len(items) :
              LET up == {l \in links : l[1] = a}
              IN  IF \E b \in 1..Len(items) : IsParentOf(items[b], items[a])
                    THEN Cardinality(up) = 1
                    ELSE up = {}
        /\ \A l \in links : items[l[2]].cid = None
        /\ DOMAIN lines = links

\* C18's case: do_graph has returned with four items, two of them codes of
\* one category that is itself a child of the fourth, and three links.
C18_Witness ==
    /\ pc = "done"
    /\ Len(items) = 4
    /\ Cardinality(links) = 3
    /\ \E a, b, c, d \in 1..4 :
          /\ a # b
          /\ items[a].cid # None /\ items[b].cid # None
          /\ IsParentOf(items[c], items[a]) /\ IsParentOf(items[c], items[b])
          /\ IsParentOf(items[d], items[c])
          /\ links = {<<a, c>>, <<b, c>>, <<c, d>>}

\* C19: through every render and memo edit of a session, each item of the
\* scene carries the memo the store holds for its code or category: the
\* node a render builds after a memo edit has the edited memo.
C19_RenderShowsStoredMemo ==
    pc = "done" =>
        \A k \in 1..Len(items) : items[k].memo = StoredMemo(db, items[k])

=============================================================================
